---- MODULE Spec2Model ----
(***************************************************************************)
(* Model of svc-summary: the summary-generation job pipeline.              *)
(*                                                                         *)
(*   server   src/unnamed/part_001  (express app, jobs, bus handler,       *)
(*                                   shutdown)                             *)
(*   summary  src/src/summary.js    (generateSummary, lines 1-35;          *)
(*                                   subscribeJson, lines 37-80)           *)
(*   schema   src/unnamed/part_000  (table "Summary")                      *)
(*                                                                         *)
(* JavaScript values are records tagged by their type, strings are         *)
(* sequences of characters, so that joins and truthiness are computed.     *)
(* The node process runs one callback at a time: `running` names the POST  *)
(* handler that is between its setImmediate call and its response.         *)
(***************************************************************************)
EXTENDS Integers, Sequences, FiniteSets, TLC

VARIABLES
    jobs,       \* one record per trigger (POST request or bus message taken by the loop)
    running,    \* index of the POST handler currently on the stack, 0 when none
    store,      \* rows of table "Summary"
    now,        \* CURRENT_TIMESTAMP of the latest insert, in milliseconds (TIMESTAMP(3))
    nc,         \* TRUE when connect() succeeded at module load
    busQueue,   \* messages delivered to the subscription, not yet taken by the loop
    sub,        \* the subscription loop: "off", "waiting", "busy", "dead"
    lastGet,    \* the response the GET summary handler on the stack is sending, if any
    proc        \* "up", "closing", "exit0", "exit1", "crashed"

vars == <<jobs, running, store, now, nc, busQueue, sub, lastGet, proc>>

-----------------------------------------------------------------------------
(* Bounds *)

MaxJobs == 2

-----------------------------------------------------------------------------
(* JavaScript values *)

Undefined == [t |-> "undefined"]
Null == [t |-> "null"]
Str(s) == [t |-> "string", s |-> s]
EmptyStr == Str(<<>>)

\* !v for the values a body field or a summary can take
Truthy(v) == v.t = "string" /\ v.s # <<>>

NL == "\n"

Arr(items) == [t |-> "array", items |-> items]

Lectures == {Str(<<"L1">>), Str(<<"L2">>)}

\* request bodies of POST summary: req.body.transcription, req.body.transcriptionJsonUrl
InlineTexts == {Undefined, EmptyStr, Str(<<"h", "i">>)}
Urls == {Undefined, Str(<<"u">>)}

\* entries of a transcript JSON array
Seg(x) == [t |-> "object", text |-> x]

\* what fetch(jsonUrl) can produce: a rejection, or a response with a status and a body
Response(ok, body) == [kind |-> "response", ok |-> ok, body |-> body]
FetchResponses ==
    {[kind |-> "reject"],
     Response(FALSE, Arr(<<Seg(Str(<<"a">>))>>)),
     Response(TRUE, [t |-> "nonjson"]),
     Response(TRUE, [t |-> "object"]),
     Response(TRUE, Arr(<<>>)),
     Response(TRUE, Arr(<<Seg(Undefined)>>)),
     Response(TRUE, Arr(<<Seg(Str(<<"a">>)), Seg(Str(<<"b">>))>>))}

\* what fetch(HUGGINGFACE_API_URL) can produce
Choice(c) == [message |-> [t |-> "object", content |-> c]]
Completion(choices) == [t |-> "object", choices |-> choices]
SummarizerResponses ==
    {[kind |-> "reject"],
     Response(FALSE, Completion(Arr(<<Choice(Str(<<"S", "1">>))>>))),
     Response(TRUE, [t |-> "nonjson"]),
     Response(TRUE, Completion(Arr(<<>>))),
     Response(TRUE, Completion(Arr(<<Choice(Undefined)>>))),
     Response(TRUE, Completion(Arr(<<Choice(EmptyStr)>>))),
     Response(TRUE, Completion(Arr(<<Choice(Str(<<"S", "1">>))>>)))}

\* messages on transcriptions.completed: undecodable bytes, or a decoded JSON value
Event(l, u) == [t |-> "object", lecture_id |-> l, transcription_json_url |-> u]
BusMessages ==
    {[t |-> "garbage"], Null,
     Event(Str(<<"L1">>), Str(<<"u">>)),
     Event(Undefined, Str(<<"u">>)),
     Event(Str(<<"L1">>), Undefined)}

Thrown == [ok |-> FALSE]
Returned(v) == [ok |-> TRUE, value |-> v]

-----------------------------------------------------------------------------
(* retrieveJsonTranscription *)

\* entry => entry.text over data; reading .text of null throws
RECURSIVE MapText(_)
MapText(items) ==
    IF items = <<>> THEN Returned(<<>>)
    ELSE LET rest == MapText(Tail(items)) IN
         IF Head(items) = Null \/ ~rest.ok THEN Thrown
         ELSE Returned(<<Head(items).text>> \o rest.value)

\* Array.prototype.join: undefined and null elements give the empty string
ToJoinStr(v) == IF v.t = "string" THEN v.s ELSE <<>>

\* join() without its argument: the separator is a comma
RECURSIVE JoinDefault(_)
JoinDefault(lines) ==
    IF lines = <<>> THEN <<>>
    ELSE IF Len(lines) = 1 THEN ToJoinStr(lines[1])
    ELSE ToJoinStr(lines[1]) \o <<",">> \o JoinDefault(Tail(lines))

RECURSIVE JoinLines(_)
JoinLines(lines) ==
    IF lines = <<>> THEN <<>>
    ELSE IF Len(lines) = 1 THEN ToJoinStr(lines[1])
    ELSE ToJoinStr(lines[1]) \o <<NL>> \o JoinLines(Tail(lines))

\* retrieveJsonTranscription without the `if (!response.ok)` branch
retrieveJsonTranscriptionAnyStatus(r) ==
    IF r.kind = "reject" THEN Thrown
    ELSE IF r.body.t # "array" THEN Thrown
    ELSE LET lines == MapText(r.body.items) IN
         IF ~lines.ok THEN Thrown ELSE Returned(Str(JoinLines(lines.value)))

retrieveJsonTranscription(r) ==
    IF r.kind = "reject" THEN Thrown
    ELSE IF ~r.ok THEN Thrown
    ELSE IF r.body.t # "array" THEN Thrown
    ELSE LET lines == MapText(r.body.items) IN
         IF ~lines.ok THEN Thrown ELSE Returned(Str(JoinLines(lines.value)))

-----------------------------------------------------------------------------
(* generateSummary *)
\* generateSummary without the `if (!response.ok)` branch
generateSummaryAnyStatus(r) ==
    IF r.kind = "reject" THEN Thrown
    ELSE IF r.body.t # "object" THEN Thrown
    ELSE IF r.body.choices.t # "array" THEN Thrown
    ELSE IF r.body.choices.items = <<>> THEN Thrown
    ELSE IF r.body.choices.items[1].message = Undefined THEN Thrown
    ELSE Returned(r.body.choices.items[1].message.content)

generateSummary(r) ==
    IF r.kind = "reject" THEN Thrown
    ELSE IF ~r.ok THEN Thrown
    ELSE IF r.body.t # "object" THEN Thrown
    ELSE IF r.body.choices.t # "array" THEN Thrown
    ELSE IF r.body.choices.items = <<>> THEN Thrown
    ELSE IF r.body.choices.items[1].message = Undefined THEN Thrown
    ELSE Returned(r.body.choices.items[1].message.content)

-----------------------------------------------------------------------------
(* Jobs: the closure of one trigger *)

\* pc: "rejected"  the POST was answered 400, nothing was scheduled
\*     "scheduled" the job sits in the setImmediate queue
\*     "fetch"     awaiting fetch(jsonUrl)
\*     "summarize" awaiting fetch(HUGGINGFACE_API_URL)
\*     "save"      awaiting prisma.summary.create, the insert not yet executed
\*     "inserted"  the insert is executed, create has not yet resolved
\*     "done", "failed"
\*     "stalled"   the awaited call never returns
\*     "killed"    the process exited under the job
\* inline and url are the fields of the request or of the event; transcription and
\* summaryText are the variables of the closure.
\* Not in the code, kept to state the properties: resp is the status of the POST
\* response (0: none yet); nFetch, nSum, nSave count the calls of fetch(jsonUrl), of
\* the summarizer and of prisma.summary.create; at names the step a failed or stalled
\* job was at; bad names the call that came back as a failure; log names who logged
\* the failure. The counters are of the job while it can still take a step; the
\* outcome of a job that cannot is in pc, at, bad and log.
NewJob(kind, lectureId, t, u) ==
    [kind |-> kind, lectureId |-> lectureId, inline |-> t, url |-> u,
     transcription |-> t, summaryText |-> Undefined,
     pc |-> "received", resp |-> 0,
     nFetch |-> 0, nSum |-> 0, nSave |-> 0,
     at |-> "none", bad |-> "none", log |-> "none"]

\* the closure of a job that ended is released: its variables are gone
release(job) ==
    [job EXCEPT !.lectureId = Undefined, !.inline = Undefined, !.url = Undefined,
                !.transcription = Undefined, !.summaryText = Undefined]

\* a job that takes no further step: its closure is released, its counters dropped
settle(job) == [release(job) EXCEPT !.nFetch = 0, !.nSum = 0, !.nSave = 0]

Alive == proc \in {"up", "closing"}

NoGet == [code |-> 0]

\* no handler is on the stack: a callback runs to completion before anything else
Ready == running = 0 /\ lastGet = NoGet

\* the event loop can run a callback
Idle == Alive /\ Ready

Awaiting(job) == job.pc \in {"fetch", "summarize", "save", "inserted"}

InFlight(job) == job.pc = "scheduled" \/ Awaiting(job)

Triggers == Len(jobs) + Len(busQueue)

\* a validation that reads the inline transcription only
postValidInlineOnly(t, u) == Truthy(t)

\* the condition of `if (!transcription && !transcriptionJsonUrl)` negated
postValid(t, u) == Truthy(t) \/ Truthy(u)

\* a catch that queues the job again
jobCatchRetry(job, step) == [job EXCEPT !.pc = "scheduled", !.at = step]

\* the catch of the job: the POST job logs and ends; the bus handler's catch reads
\* lectureId, which is declared inside its try block, so the catch itself throws a
\* ReferenceError, which the catch of subscribeJson logs with the subject
jobCatch(job, step) ==
    [settle(job) EXCEPT !.pc = "failed", !.at = step,
                         !.log = IF job.kind = "bus" THEN "subscribe" ELSE "job"]

\* retrieveJsonTranscription up to its first await: fetch(jsonUrl) is called, and
\* rejects without a request when jsonUrl is undefined. Neither the url nor the
\* falsy transcription is read again.
callFetch(job) ==
    LET j1 == [job EXCEPT !.nFetch = @ + 1, !.url = Undefined,
                          !.inline = IF Truthy(@) THEN @ ELSE Undefined,
                          !.transcription = IF Truthy(@) THEN @ ELSE Undefined] IN
    IF job.url.t = "string" THEN [j1 EXCEPT !.pc = "fetch"] ELSE jobCatch(j1, "resolve")

\* generateSummary up to its first await: the chat request is sent with the
\* transcription as the user message
callSummarizer(job, text) ==
    [job EXCEPT !.transcription = text, !.pc = "summarize", !.nSum = @ + 1]

\* prisma.summary.create validates its arguments before it queries the database:
\* lecture_id and summary_text are required strings
createArgsValid(lectureId, summaryText) ==
    lectureId.t = "string" /\ summaryText.t = "string"

\* saveSummary up to its await; the fields of the request are not read again
saveSummary(job, summaryText) ==
    LET j1 == [job EXCEPT !.nSave = @ + 1] IN
    IF createArgsValid(job.lectureId, summaryText)
    THEN [j1 EXCEPT !.pc = "save", !.summaryText = summaryText,
                    !.transcription = Undefined, !.inline = Undefined, !.url = Undefined]
    ELSE jobCatch(j1, "save")

\* the end of the try block
jobReturn(job) ==
    [settle(job) EXCEPT !.pc = "done",
                         !.log = IF job.kind = "bus" THEN "saved" ELSE @]

\* a job body that prefers the url to the inline transcription
jobBodyUrlFirst(job) ==
    IF Truthy(job.url) THEN callFetch(job)
    ELSE callSummarizer(job, job.transcription)

\* the body of the setImmediate callback up to its first await
jobBody(job) ==
    IF ~Truthy(job.transcription) THEN callFetch(job)
    ELSE callSummarizer(job, job.transcription)

\* the job body run inside the handler, before the response
setImmediateInline(job) == jobBody(job)

\* setImmediate(async () => {...}): the callback is queued, nothing of it runs yet
setImmediateJob(job) == [job EXCEPT !.pc = "scheduled"]

\* after `await retrieveJsonTranscription(...)`
afterFetch(job, r) ==
    LET res == retrieveJsonTranscription(r) IN
    IF res.ok THEN callSummarizer(job, res.value) ELSE jobCatch(job, "resolve")

\* after `await generateSummary(transcription)`
afterSummarize(job, r) ==
    LET res == generateSummary(r) IN
    IF res.ok THEN saveSummary(job, res.value) ELSE jobCatch(job, "summarize")

\* `handler(data)` without the await: the loop goes on at once
awaitHandlerDetached(job) == "waiting"

\* `await handler(data)` in the subscription loop: the loop takes no other message
\* until the handler's promise settles
awaitHandler(job) == IF job.pc \in {"done", "failed"} THEN "waiting" ELSE "busy"

\* the subscription loop after a step of a job
subAfter(job) == IF job.kind = "bus" THEN awaitHandler(job) ELSE sub

\* the transcript fetch came back without a JSON array: rejected, a non-success
\* status, or another body
BadTranscript(r) == r.kind = "reject" \/ ~r.ok \/ r.body.t # "array"

\* the summarizer call came back without a completion: rejected, a non-2xx status,
\* or a body that is not JSON
BadCompletion(r) == r.kind = "reject" \/ ~r.ok \/ r.body.t = "nonjson"

-----------------------------------------------------------------------------
(* POST /api/lectures/:lectureId/summary *)

\* lines 101-108: validation, then either the 400 response or setImmediate
PostReceive ==
    /\ proc = "up" /\ Ready
    /\ Triggers < MaxJobs
    /\ \E l \in Lectures, t \in InlineTexts, u \in Urls :
        LET job == NewJob("http", l, t, u) IN
        IF ~postValid(t, u)
        THEN /\ jobs' = Append(jobs, [job EXCEPT !.pc = "rejected", !.resp = 400,
                                                 !.lectureId = Undefined])
             /\ running' = 0
        ELSE /\ jobs' = Append(jobs, setImmediateJob(job))
             /\ running' = Len(jobs) + 1
    /\ UNCHANGED <<store, now, nc, busQueue, sub, lastGet, proc>>

\* line 123: the 202 response, and the handler returns
PostRespond ==
    /\ Alive /\ running # 0
    /\ jobs' = [jobs EXCEPT ![running].resp = 202]
    /\ running' = 0
    /\ UNCHANGED <<store, now, nc, busQueue, sub, lastGet, proc>>

\* the event loop runs the setImmediate callback of job j
JobStartOf(j) ==
    /\ Idle
    /\ jobs[j].pc = "scheduled"
    /\ jobs' = [jobs EXCEPT ![j] = jobBody(jobs[j])]
    /\ UNCHANGED <<running, store, now, nc, busQueue, sub, lastGet, proc>>

JobStart == \E j \in DOMAIN jobs : JobStartOf(j)

-----------------------------------------------------------------------------
(* The awaited calls of a job *)

FetchReturnOf(j) ==
    /\ Idle
    /\ jobs[j].pc = "fetch"
    /\ \E r \in FetchResponses :
        LET nj == [afterFetch(jobs[j], r) EXCEPT
                     !.bad = IF BadTranscript(r) THEN "fetch" ELSE @]
        IN /\ jobs' = [jobs EXCEPT ![j] = nj]
           /\ sub' = subAfter(nj)
    /\ UNCHANGED <<running, store, now, nc, busQueue, lastGet, proc>>

FetchReturn == \E j \in DOMAIN jobs : FetchReturnOf(j)

\* a failed summarizer call that fails every job waiting for the summarizer
SummarizeReturnSharedOf(j) ==
    /\ Idle
    /\ jobs[j].pc = "summarize"
    /\ \E r \in SummarizerResponses :
        LET nj == [afterSummarize(jobs[j], r) EXCEPT
                     !.bad = IF BadCompletion(r) THEN "summarize" ELSE @]
        IN /\ jobs' = [k \in DOMAIN jobs |->
                         IF k = j THEN nj
                         ELSE IF nj.pc = "failed" /\ jobs[k].pc = "summarize"
                              THEN jobCatch(jobs[k], "summarize")
                              ELSE jobs[k]]
           /\ sub' = subAfter(nj)
    /\ UNCHANGED <<running, store, now, nc, busQueue, lastGet, proc>>

SummarizeReturnOf(j) ==
    /\ Idle
    /\ jobs[j].pc = "summarize"
    /\ \E r \in SummarizerResponses :
        LET nj == [afterSummarize(jobs[j], r) EXCEPT
                     !.bad = IF BadCompletion(r) THEN "summarize" ELSE @]
        IN /\ jobs' = [jobs EXCEPT ![j] = nj]
           /\ sub' = subAfter(nj)
    /\ UNCHANGED <<running, store, now, nc, busQueue, lastGet, proc>>

SummarizeReturn == \E j \in DOMAIN jobs : SummarizeReturnOf(j)

\* the row prisma.summary.create inserts: a fresh id, the timestamp defaults to
\* CURRENT_TIMESTAMP; `by` is the job that wrote it (not a column)
\* a row built from variables of the module that the latest trigger has set
NewRowShared(j, ts) ==
    [id |-> Cardinality(store) + 1, lecture_id |-> jobs[Len(jobs)].lectureId,
     summary_text |-> jobs[Len(jobs)].summaryText, timestamp |-> ts, by |-> j]

NewRow(j, ts) ==
    [id |-> Cardinality(store) + 1, lecture_id |-> jobs[j].lectureId,
     summary_text |-> jobs[j].summaryText, timestamp |-> ts, by |-> j]

\* the reading of the database clock at an insert: only the order of the
\* timestamps is read, and inserts are taken to be a millisecond or more apart
Clock == {now + 1}

\* an upsert keyed by lecture_id in place of the insert
DbUpsertOf(j) ==
    /\ Ready
    /\ jobs[j].pc = "save"
    /\ \E ts \in Clock :
        /\ store' = {r \in store : r.lecture_id # jobs[j].lectureId} \cup {NewRow(j, ts)}
        /\ now' = ts
    /\ jobs' = [jobs EXCEPT ![j] =
                  IF Alive THEN [release(@) EXCEPT !.pc = "inserted"]
                  ELSE [settle(@) EXCEPT !.pc = "killed"]]
    /\ UNCHANGED <<running, nc, busQueue, sub, lastGet, proc>>

\* the database executes the INSERT of the create that job j has in flight, also
\* when the process that sent it is gone; the arguments are not read again
DbInsertOf(j) ==
    /\ Ready
    /\ jobs[j].pc = "save"
    /\ \E ts \in Clock :
        /\ store' = store \cup {NewRow(j, ts)}
        /\ now' = ts
    /\ jobs' = [jobs EXCEPT ![j] =
                  IF Alive THEN [release(@) EXCEPT !.pc = "inserted"]
                  ELSE [settle(@) EXCEPT !.pc = "killed"]]
    /\ UNCHANGED <<running, nc, busQueue, sub, lastGet, proc>>

DbInsert == \E j \in DOMAIN jobs : DbInsertOf(j)

\* create resolves
SaveReturnOf(j) ==
    /\ Idle
    /\ jobs[j].pc = "inserted"
    /\ LET nj == jobReturn(jobs[j])
       IN /\ jobs' = [jobs EXCEPT ![j] = nj]
          /\ sub' = subAfter(nj)
    /\ UNCHANGED <<running, store, now, nc, busQueue, lastGet, proc>>

SaveReturn == \E j \in DOMAIN jobs : SaveReturnOf(j)

\* create rejects: the database refused or could not be reached, no row is inserted
SaveFailOf(j) ==
    /\ Idle
    /\ jobs[j].pc = "save"
    /\ LET nj == jobCatch(jobs[j], "save")
       IN /\ jobs' = [jobs EXCEPT ![j] = nj]
          /\ sub' = subAfter(nj)
    /\ UNCHANGED <<running, store, now, nc, busQueue, lastGet, proc>>

SaveFail == \E j \in DOMAIN jobs : SaveFailOf(j)

\* an awaited call that never returns: no timeout is set on any of them
Stall ==
    /\ Idle
    /\ \E j \in DOMAIN jobs :
        /\ jobs[j].pc \in {"fetch", "summarize", "save"}
        /\ jobs' = [jobs EXCEPT ![j] = [settle(@) EXCEPT !.pc = "stalled", !.at = jobs[j].pc]]
    /\ UNCHANGED <<running, store, now, nc, busQueue, sub, lastGet, proc>>

-----------------------------------------------------------------------------
(* GET /api/lectures/:lectureId/summary *)

RowsOf(l) == {r \in store : r.lecture_id = l}

\* findFirst with orderBy: { timestamp: "asc" }
findFirstAsc(l) == {r \in RowsOf(l) : \A o \in RowsOf(l) : r.timestamp <= o.timestamp}

\* findFirst where lecture_id = l, orderBy timestamp desc: a row no other row of the
\* lecture is newer than (the order among equal timestamps is the database's)
findFirst(l) == {r \in RowsOf(l) : \A o \in RowsOf(l) : o.timestamp <= r.timestamp}

\* the handler with a findFirst that states no order: any row of the lecture
getSummaryUnordered(l) ==
    {[code |-> 500]}
    \cup (IF RowsOf(l) = {} THEN {[code |-> 404, lecture |-> l]}
          ELSE {[code |-> 200, lecture |-> l, summary |-> r.summary_text] : r \in RowsOf(l)})

\* the responses the handler can send for lecture l: 500 when the query throws
getSummary(l) ==
    {[code |-> 500]}
    \cup (IF findFirst(l) = {} THEN {[code |-> 404, lecture |-> l]}
          ELSE {[code |-> 200, lecture |-> l, summary |-> r.summary_text] : r \in findFirst(l)})

\* the handler up to its response: the query returned or threw
Get ==
    /\ proc = "up" /\ Ready
    /\ \E l \in Lectures : lastGet' \in getSummary(l)
    /\ UNCHANGED <<jobs, running, store, now, nc, busQueue, sub, proc>>

\* the response is sent and the handler returns
GetRespond ==
    /\ lastGet # NoGet
    /\ lastGet' = NoGet
    /\ UNCHANGED <<jobs, running, store, now, nc, busQueue, sub, proc>>

-----------------------------------------------------------------------------
(* shutdown and exit *)

\* SIGINT or SIGTERM: server.close() and the 10 s timer
shutdown ==
    /\ proc = "up" /\ Ready
    /\ proc' = "closing"
    /\ UNCHANGED <<jobs, running, store, now, nc, busQueue, sub, lastGet>>

\* the process ends with `code`: what lived in its memory is gone, a create that
\* was sent stays with the database
exit(code) ==
    /\ proc' = code
    /\ jobs' = [j \in DOMAIN jobs |->
                  IF InFlight(jobs[j]) /\ jobs[j].pc # "save"
                  THEN [settle(jobs[j]) EXCEPT !.pc = "killed"]
                  ELSE jobs[j]]
    /\ busQueue' = <<>>
    /\ sub' = "off"
    /\ UNCHANGED <<running, store, now, nc, lastGet>>

\* the callback of server.close: $disconnect, then process.exit(0)
ServerClosed ==
    /\ proc = "closing" /\ Ready
    /\ exit("exit0")

\* a shutdown whose timer never fires
GraceTimeoutNever ==
    /\ FALSE
    /\ exit("exit1")

\* setTimeout(() => process.exit(1), 10000)
GraceTimeout ==
    /\ proc = "closing" /\ Ready
    /\ exit("exit1")

-----------------------------------------------------------------------------
(* transcriptions.completed *)

\* the bus delivers a message to the subscription
BusPublish ==
    /\ Idle /\ nc
    /\ Triggers < MaxJobs
    /\ \E m \in BusMessages : busQueue' = Append(busQueue, m)
    /\ UNCHANGED <<jobs, running, store, now, nc, sub, lastGet, proc>>

\* the handler up to its first await
busHandler(data) ==
    IF data = Null
    THEN jobCatch(NewJob("bus", Undefined, Undefined, Undefined), "handler")
    ELSE callFetch(NewJob("bus", data.lecture_id, Undefined, data.transcription_json_url))

\* one turn of `for await (const msg of sub)`: jc.decode is outside the try, so
\* undecodable bytes reject the loop's promise, which nothing handles: the loop is
\* gone, and node either goes on or ends the process (--unhandled-rejections)
subscribeJson ==
    /\ Idle
    /\ sub = "waiting" /\ busQueue # <<>>
    /\ IF Head(busQueue).t = "garbage"
       THEN \/ /\ sub' = "dead"
               /\ busQueue' = Tail(busQueue)
               /\ UNCHANGED <<jobs, proc, running, store, now, nc, lastGet>>
            \/ exit("crashed")
       ELSE LET nj == busHandler(Head(busQueue)) IN
            /\ jobs' = Append(jobs, nj)
            /\ sub' = awaitHandler(nj)
            /\ busQueue' = Tail(busQueue)
            /\ UNCHANGED <<proc, running, store, now, nc, lastGet>>

-----------------------------------------------------------------------------

\* a subscription created whether or not the connection is there
subscribeUnguarded(connected) == "waiting"

\* subscribeJson up to the loop: `if (!nc) return` warns and creates no
\* subscription; nc is null when NATS_URL is empty or connect() threw
subscribe(connected) == IF connected THEN "waiting" ELSE "off"

Init ==
    /\ jobs = <<>>
    /\ running = 0
    /\ store = {}
    /\ now = 0
    /\ nc \in BOOLEAN
    /\ busQueue = <<>>
    /\ sub = subscribe(nc)
    /\ lastGet = NoGet
    /\ proc = "up"

Next ==
    \/ PostReceive \/ PostRespond \/ JobStart
    \/ FetchReturn \/ SummarizeReturn \/ DbInsert \/ SaveReturn \/ SaveFail
    \/ Stall \/ Get \/ GetRespond
    \/ BusPublish \/ subscribeJson
    \/ shutdown \/ ServerClosed \/ GraceTimeout

Spec == Init /\ [][Next]_vars

\* the timer of shutdown fires once its 10 s are over: the event loop is never held
\* for good, since every callback of the program runs to completion. The callback of
\* server.close has no such guarantee, it waits for the open connections to end.
FairSpec == Spec /\ WF_vars(GraceTimeout)

-----------------------------------------------------------------------------
(* Properties *)

HttpJobs == {j \in DOMAIN jobs : jobs[j].kind = "http"}

BusJobs == {j \in DOMAIN jobs : jobs[j].kind = "bus"}

RowsBy(j) == {r \in store : r.by = j}

NoCalls(job) == job.nFetch = 0 /\ job.nSum = 0 /\ job.nSave = 0

\* a body field that is there and is not the empty string
Present(v) == v # Undefined /\ v # EmptyStr

C2_NoStepBeforeResponse ==
    \A j \in HttpJobs :
        /\ running = j => jobs[j].pc = "scheduled" /\ NoCalls(jobs[j])
        /\ (jobs[j].pc \notin {"rejected", "scheduled"} \/ ~NoCalls(jobs[j]))
             => jobs[j].resp = 202

C2_Witness ==
    \E j \in HttpJobs : jobs[j].pc = "fetch" /\ jobs[j].nFetch = 1 /\ jobs[j].resp = 202

\* C3: a row is written only after the summarizer call of its job: a job whose
\* summarizer call was rejected, came back non-2xx or without JSON fails at the
\* summarize step, calls no save and has no row; every row is of a job that called
\* the summarizer once, got a completion and went on to its save.
C3_RowOnlyAfterSummary ==
    /\ \A j \in DOMAIN jobs :
        jobs[j].bad = "summarize"
          => /\ jobs[j].pc = "failed" /\ jobs[j].at = "summarize"
             /\ jobs[j].nSave = 0
             /\ RowsBy(j) = {}
    /\ \A j \in DOMAIN jobs :
        jobs[j].pc = "save" => jobs[j].nSum = 1 /\ jobs[j].bad = "none"
    /\ \A r \in store :
        /\ r.by \in DOMAIN jobs
        /\ jobs[r.by].pc \in {"inserted", "done", "killed"}
        /\ jobs[r.by].bad = "none"

C3_Witness ==
    \E j \in DOMAIN jobs :
        /\ jobs[j].bad = "summarize" /\ jobs[j].pc = "failed"
        /\ \E r \in store : r.by # j

\* C4: on either trigger, a url whose fetch is rejected, comes back with a
\* non-success status or with a body that is not a JSON array fails the job at the
\* resolve step: no summarizer call, no save, no row.
C4_BadTranscriptFailsAtResolve ==
    \A j \in DOMAIN jobs :
        jobs[j].bad = "fetch"
          => /\ jobs[j].pc = "failed" /\ jobs[j].at = "resolve"
             /\ jobs[j].nSum = 0 /\ jobs[j].nSave = 0
             /\ RowsBy(j) = {}

C4_Witness ==
    /\ \E j \in HttpJobs : jobs[j].bad = "fetch"
    /\ \E k \in BusJobs : jobs[k].bad = "fetch"

\* the rows of lecture l with the greatest timestamp
Latest(l) ==
    {r \in store : /\ r.lecture_id = l
                   /\ \A o \in store : o.lecture_id = l => o.timestamp <= r.timestamp}

\* C5: a GET that the store answers returns 200 with the text of the row of the
\* lecture that has the latest timestamp, in whatever order the jobs were triggered,
\* and 404 exactly when the lecture has no row.
C5_GetReturnsLatest ==
    /\ lastGet.code \in {0, 200, 404, 500}
    /\ lastGet.code = 200
         => \E r \in Latest(lastGet.lecture) : lastGet.summary = r.summary_text
    /\ lastGet.code = 404
         => ~ \E r \in store : r.lecture_id = lastGet.lecture

C5_Witness ==
    /\ lastGet.code = 200
    /\ \E r1, r2 \in store :
        /\ r1.lecture_id = lastGet.lecture /\ r2.lecture_id = lastGet.lecture
        /\ r1.by < r2.by /\ r2.timestamp < r1.timestamp
        /\ r1.summary_text # r2.summary_text

\* C6: the store is append-only: a step either leaves it as it is or adds one whole
\* row, the one of a job at its save step; no row is ever changed or removed, and a
\* GET does not write.
C6_AppendOnly ==
    [][/\ store \subseteq store'
       /\ store' # store
            => \E j \in DOMAIN jobs :
                 /\ jobs[j].pc = "save"
                 /\ jobs'[j].pc \in {"inserted", "killed"}
                 /\ \E r \in store' :
                      /\ r \notin store
                      /\ store' = store \cup {r}
                      /\ r.by = j
                      /\ r.lecture_id = jobs[j].lectureId
                      /\ r.summary_text = jobs[j].summaryText
       /\ lastGet' # lastGet => store' = store]_vars

C6_Witness ==
    \E r1, r2 \in store :
        /\ r1.lecture_id = r2.lecture_id
        /\ r1.timestamp < r2.timestamp

\* C7: a job is one attempt: at most one transcript fetch, one summarizer call and
\* one save, never more than one row; a job whose insert is executed made exactly
\* one summarizer call and one save, and a job that succeeded wrote exactly one row.
C7_SingleAttempt ==
    \A j \in DOMAIN jobs :
        /\ jobs[j].nFetch <= 1 /\ jobs[j].nSum <= 1 /\ jobs[j].nSave <= 1
        /\ Cardinality(RowsBy(j)) <= 1
        /\ jobs[j].pc = "inserted" => jobs[j].nSum = 1 /\ jobs[j].nSave = 1
        /\ jobs[j].pc \in {"inserted", "done"} => Cardinality(RowsBy(j)) = 1

C7_Witness ==
    \E j, k \in DOMAIN jobs :
        /\ jobs[j].pc = "done" /\ Cardinality(RowsBy(j)) = 1
        /\ jobs[k].pc = "inserted" /\ jobs[k].nFetch = 1 /\ Cardinality(RowsBy(k)) = 1

\* C8: a request with a non-empty inline transcription never fetches, url or not,
\* and the summarizer is called with the inline text as it came.
C8_InlineNeverFetches ==
    \A j \in HttpJobs :
        Truthy(jobs[j].inline)
          => /\ jobs[j].nFetch = 0
             /\ jobs[j].pc = "summarize" => jobs[j].transcription = jobs[j].inline

C8_Witness ==
    \E j \in HttpJobs :
        /\ Truthy(jobs[j].inline) /\ Truthy(jobs[j].url)
        /\ jobs[j].pc = "summarize" /\ jobs[j].nSum = 1

\* C9: no bus event stops the subscription loop: while the process of a connected
\* service lives, the loop waits for a message or handles one, and no event ends
\* the process.
C9_LoopSurvivesBadEvent ==
    nc => /\ proc # "crashed"
          /\ Alive => sub \in {"waiting", "busy"}

\* the step job k waits for can be taken
StepEnabled(k) ==
    CASE jobs[k].pc = "scheduled" -> ENABLED JobStartOf(k)
      [] jobs[k].pc = "fetch"     -> ENABLED FetchReturnOf(k)
      [] jobs[k].pc = "summarize" -> ENABLED SummarizeReturnOf(k)
      [] jobs[k].pc = "save"      -> ENABLED DbInsertOf(k)
      [] jobs[k].pc = "inserted"  -> ENABLED SaveReturnOf(k)
      [] OTHER -> TRUE

StalledJobs == {i \in DOMAIN jobs : jobs[i].pc = "stalled"}

\* a bus job whose handler has not settled
Unsettled(i) == jobs[i].kind = "bus" /\ (Awaiting(jobs[i]) \/ jobs[i].pc = "stalled")

C11_IndependentJobs ==
    [][\A j \in DOMAIN jobs :
         (jobs[j].pc = "summarize" /\ jobs'[j].pc = "failed")
           => /\ store' = store
              /\ proc' = proc /\ running' = running /\ lastGet' = lastGet
              /\ {r \in store' : r.by = j} = {}
              /\ \A k \in DOMAIN jobs :
                   k # j => jobs'[k] = jobs[k] /\ StepEnabled(k)]_vars

C11_Witness ==
    \E j \in BusJobs, k \in HttpJobs :
        /\ jobs[j].pc = "failed" /\ jobs[j].bad = "summarize"
        /\ jobs[k].pc = "done"
        /\ \E r \in RowsBy(k) : r.lecture_id = Str(<<"L2">>)

C13_NoBusHttpStillWorks ==
    ~nc => /\ sub = "off" /\ busQueue = <<>> /\ BusJobs = {}
           /\ proc # "crashed"
           /\ (proc = "up" /\ Ready /\ Triggers < MaxJobs) => ENABLED PostReceive
           /\ \A j \in HttpJobs :
                /\ (jobs[j].pc # "rejected" /\ running # j) => jobs[j].resp = 202
                /\ Idle => StepEnabled(j)

C13_Witness ==
    /\ ~nc
    /\ \E j \in HttpJobs :
        jobs[j].pc = "done" /\ jobs[j].resp = 202 /\ RowsBy(j) # {}

\* C14 as stated: a transcript fetched from a url that is an empty array, or an
\* array with an element without text, ends the job at the resolve step: no job
\* reaches the summarizer call with the empty text such an array joins to.
C14_EmptyTranscriptIsFatal ==
    \A j \in DOMAIN jobs :
        (jobs[j].pc = "summarize" /\ jobs[j].nFetch = 1)
          => Truthy(jobs[j].transcription)

\* C15 as stated: every row of the store has a non-empty summary_text.
C15_SummaryTextNonEmpty ==
    \A r \in store : r.summary_text.t = "string" /\ Truthy(r.summary_text)

\* C16 as stated: a job that failed, at whatever step and from whichever trigger,
\* was logged by the catch of its own job body, the line that carries the lecture id
\* and the error, and the process did not stop for it.
C16_FailureLoggedWithLecture ==
    /\ proc # "crashed" \/ sub = "dead"
    /\ \A j \in DOMAIN jobs : jobs[j].pc = "failed" => jobs[j].log = "job"

\* C17 as stated, its part on rows: once the process has exited the store does not
\* change any more.
C17_NoRowAfterExit == [][~Alive => store' = store]_vars

\* C17 amended: after a termination signal the process always eventually exits, by
\* the callback of server.close or by the grace timer; from the signal on no POST is
\* taken; the exit ends every job in memory, and the only row that can still appear
\* is the row of a create that was sent before the exit, which the database may
\* execute afterwards; every job leaves no row or one complete row.
C17_ExitsAndNoHalfRow ==
    /\ (proc = "closing") ~> ~Alive
    /\ [][/\ (proc = "closing" /\ proc' # proc) => proc' \in {"exit0", "exit1", "crashed"}
          /\ ~Alive => proc' = proc
          /\ (proc # "up") => HttpJobs' = HttpJobs
          /\ ~Alive => \A r \in store' \ store :
                          r.by \in DOMAIN jobs /\ jobs[r.by].pc = "save"]_vars
    /\ [](~Alive => \A j \in DOMAIN jobs :
                      jobs[j].pc \notin {"scheduled", "fetch", "summarize", "inserted"})
    /\ [](/\ \A j \in DOMAIN jobs : Cardinality(RowsBy(j)) <= 1
          /\ \A r \in store : /\ r.lecture_id.t = "string" /\ r.summary_text.t = "string"
                               /\ r.timestamp \in 1..now)

C17_Witness ==
    /\ proc = "exit1"
    /\ \E j, k \in DOMAIN jobs :
        /\ jobs[j].pc = "killed" /\ RowsBy(j) # {}
        /\ jobs[k].pc = "killed" /\ RowsBy(k) = {}

\* the longest transcript array the join is checked on
MaxLines == 3

\* segment texts: two letters, and one with a blank on either side
LineTexts == {<<"a">>, <<"b">>, <<" ", "a">>, <<"a", " ">>}

TextArrays == UNION {[1..n -> LineTexts] : n \in 0..MaxLines}

\* where text i starts in the joined string, counted from 0
RECURSIVE Offset(_, _)
Offset(texts, i) ==
    IF i = 1 THEN 0 ELSE Offset(texts, i - 1) + Len(texts[i - 1]) + 1

\* s is the texts in their order, whole and unchanged, with exactly one line feed
\* between neighbours and nothing else
IsJoinOf(s, texts) ==
    LET n == Len(texts) IN
    /\ Len(s) = IF n = 0 THEN 0 ELSE Offset(texts, n) + Len(texts[n])
    /\ \A i \in 1..n :
        /\ SubSeq(s, Offset(texts, i) + 1, Offset(texts, i) + Len(texts[i])) = texts[i]
        /\ i < n => s[Offset(texts, i) + Len(texts[i]) + 1] = NL

\* the function on every array of up to MaxLines texts, equal texts included
JoinIsExact ==
    \A texts \in TextArrays :
        LET r == Response(TRUE, Arr([i \in 1..Len(texts) |-> Seg(Str(texts[i]))]))
            res == retrieveJsonTranscription(r)
        IN res.ok /\ res.value.t = "string" /\ IsJoinOf(res.value.s, texts)

\* the 2xx transcript arrays of the model whose elements all have a text
TextResponses ==
    {r \in FetchResponses :
        /\ r.kind = "response" /\ r.ok /\ r.body.t = "array"
        /\ \A i \in 1..Len(r.body.items) : r.body.items[i].text.t = "string"}

\* C18: the transcript of an array [{text: a}, {text: b}] is "a\nb": the texts in
\* their order, one line feed between neighbours, nothing dropped, deduplicated or
\* trimmed; and the text a job hands to the summarizer after a fetch is exactly the
\* joined text of an array it could fetch, or the empty text of an element without
\* text.
C18_JoinExact ==
    /\ JoinIsExact
    /\ \A j \in DOMAIN jobs :
        (jobs[j].pc = "summarize" /\ jobs[j].nFetch = 1)
          => /\ jobs[j].nSum = 1
             /\ jobs[j].transcription.t = "string"
             /\ \/ jobs[j].transcription = EmptyStr
                \/ \E r \in TextResponses :
                     IsJoinOf(jobs[j].transcription.s,
                              [i \in 1..Len(r.body.items) |-> r.body.items[i].text.s])

C18_Witness ==
    \E j \in DOMAIN jobs :
        /\ jobs[j].pc = "summarize" /\ jobs[j].nFetch = 1 /\ jobs[j].nSum = 1
        /\ jobs[j].transcription = Str(<<"a", NL, "b">>)

\* C19: the data of a job are its own. A new row carries the lecture id and the
\* summary text of the job whose create it is; the lecture id of a job is the one of
\* its trigger until the job lets go of it; its summary text is set once, by the
\* return of its own summarizer call, to what generateSummary made of the response;
\* and a step of one job changes no other job.
C19_RowDataLocal ==
    [][/\ \A r \in store' \ store :
            /\ r.by \in DOMAIN jobs /\ jobs[r.by].pc = "save"
            /\ r.lecture_id = jobs[r.by].lectureId
            /\ r.summary_text = jobs[r.by].summaryText
       /\ \A j \in DOMAIN jobs :
            /\ jobs'[j].lectureId \in {jobs[j].lectureId, Undefined}
            /\ jobs'[j].summaryText # jobs[j].summaryText
                 => \/ jobs'[j].summaryText = Undefined
                    \/ /\ jobs[j].pc = "summarize" /\ jobs'[j].pc = "save"
                       /\ \E r \in SummarizerResponses :
                            /\ generateSummary(r).ok
                            /\ jobs'[j].summaryText = generateSummary(r).value
       /\ proc' = proc
            => Cardinality({j \in DOMAIN jobs : jobs'[j] # jobs[j]}) <= 1]_vars

C19_Witness ==
    \E r1, r2 \in store :
        /\ r1.by # r2.by
        /\ r1.lecture_id # r2.lecture_id
        /\ r1.summary_text # r2.summary_text
        /\ r1.id < r2.id /\ r2.by < r1.by

\* C20: bus events are handled one at a time, in the order of their delivery. The
\* handler is called with the oldest message of the subscription, and only when
\* every earlier bus job has completed its save or failed; so at most one bus job is
\* in flight, and a later bus job makes no fetch before the one ahead of it is over.
C20_BusOneAtATime ==
    /\ [](/\ Cardinality({i \in BusJobs : Unsettled(i)}) <= 1
          /\ sub = "waiting" => \A i \in BusJobs : ~Unsettled(i)
          /\ \A i, k \in BusJobs : i < k => jobs[i].pc \in {"done", "failed"})
    /\ [][/\ \A k \in DOMAIN jobs' \ DOMAIN jobs :
               jobs'[k].kind = "bus"
                 => /\ sub = "waiting" /\ busQueue # <<>>
                    /\ busQueue' = Tail(busQueue)
                    /\ jobs'[k] = busHandler(Head(busQueue))
                    /\ \A i \in BusJobs : jobs[i].pc \in {"done", "failed"}
          /\ busQueue' # busQueue
               => \/ busQueue # <<>> /\ busQueue' = Tail(busQueue)
                  \/ \E m \in BusMessages : busQueue' = Append(busQueue, m)
                  \/ ~Alive' /\ busQueue' = <<>>]_vars

C20_Witness ==
    \E i, k \in BusJobs :
        /\ i < k
        /\ jobs[i].pc = "done" /\ RowsBy(i) # {}
        /\ jobs[k].pc = "fetch"

====
